---- MODULE Spec2Model ----
(***************************************************************************)
(* Quick-action mixins of django_admin_performance_tools                   *)
(* (quick_actions/base_actions.py): name / URL-path derivation and caching *)
(* on the class, success messages around POST / PUT / DELETE, the context  *)
(* merge, and the wizard's done().                                         *)
(*                                                                         *)
(* A Python str is a sequence of one-character strings.  An attribute      *)
(* value is a record [kind, str]: kind "unset" (the class's own __dict__   *)
(* has no such entry), "none" (None) or "str".                             *)
(***************************************************************************)
EXTENDS Integers, Sequences, FiniteSets, TLC

VARIABLES
    className,   \* cls.__name__ of the two user classes
    conf,        \* the class bodies as written (the dicts at import time)
    dict,        \* the __dict__ of every class, as the classmethods update it
    last,        \* the last call: [op, cls, repeated]
    ret,         \* the value the last classmethod call returned
    pre,         \* dict as it was when the last call started
    first,       \* per class and classmethod, what its first call returned
    messages,    \* the message storage messages.success() appends to
    events,      \* what the last request did, in order
    requests,    \* number of requests handled so far
    steps,       \* the wizard's number of steps
    step,        \* the wizard's current step, 1..steps
    finished,    \* the wizard's done() has run
    redirect,    \* what done() passed to redirect()
    selfObj,     \* the view instance get_context_data puts under "action"
    superCtx,    \* what super().get_context_data(**kwargs) returns
    adminCtx,    \* what admin_site.each_context(request) returns
    context      \* what get_context_data returned

vars == <<className, conf, dict, last, ret, pre, first, messages, events,
          requests, steps, step, finished, redirect, selfObj, superCtx,
          adminCtx, context>>

nameVars == <<className, conf, dict, pre, first, ret>>
reqVars == <<messages, events, requests>>
wizVars == <<steps, step, finished, redirect>>
ctxVars == <<selfObj, superCtx, adminCtx, context>>

---------------------------------------------------------------------------
(* Bounds *)

MaxWords == 3       \* words a class name is made of
MaxRequests == 3    \* requests handled in one behaviour
MaxSteps == 2       \* steps of a wizard

---------------------------------------------------------------------------
(* Characters and strings *)

LowerChars == {"a", "c", "e", "i", "n", "o", "p", "r", "s", "t"}
DigitChars == {"9"}
LowerOf == [c \in {"A", "C", "I", "N", "O", "R", "T"} |->
              CASE c = "A" -> "a" [] c = "C" -> "c" [] c = "I" -> "i"
                [] c = "N" -> "n" [] c = "O" -> "o" [] c = "R" -> "r"
                [] c = "T" -> "t"]

\* [A-Z]
IsUpper(c) == c \in DOMAIN LowerOf

\* [a-z0-9]
IsLowerOrDigit(c) == c \in LowerChars \cup DigitChars

\* str.lower()
Lower(s) == [i \in 1..Len(s) |-> IF IsUpper(s[i]) THEN LowerOf[s[i]] ELSE s[i]]

\* the substitution with count=1: only the leftmost match is replaced
RECURSIVE SubCamelFirstOnly(_)
SubCamelFirstOnly(s) ==
    IF Len(s) < 2 THEN s
    ELSE IF IsLowerOrDigit(s[1]) /\ IsUpper(s[2])
         THEN <<s[1], " ", s[2]>> \o SubSeq(s, 3, Len(s))
         ELSE <<s[1]>> \o SubCamelFirstOnly(Tail(s))

\* sub(r"([a-z0-9])([A-Z])", r"\1 \2", s): the leftmost match is replaced and
\* the scan resumes after the two characters it consumed
RECURSIVE SubCamel(_)
SubCamel(s) ==
    IF Len(s) < 2 THEN s
    ELSE IF IsLowerOrDigit(s[1]) /\ IsUpper(s[2])
         THEN <<s[1], " ", s[2]>> \o SubCamel(SubSeq(s, 3, Len(s)))
         ELSE <<s[1]>> \o SubCamel(Tail(s))

\* s.replace(old, new), old not empty: non-overlapping occurrences, left to right
RECURSIVE Replace(_, _, _)
Replace(s, old, new) ==
    IF Len(s) < Len(old) THEN s
    ELSE IF SubSeq(s, 1, Len(old)) = old
         THEN new \o Replace(SubSeq(s, Len(old) + 1, Len(s)), old, new)
         ELSE <<s[1]>> \o Replace(Tail(s), old, new)

\* s.strip()
RECURSIVE Strip(_)
Strip(s) ==
    IF s = <<>> THEN s
    ELSE IF s[1] = " " THEN Strip(Tail(s))
    ELSE IF s[Len(s)] = " " THEN Strip(SubSeq(s, 1, Len(s) - 1))
    ELSE s

LowerAction == <<"a", "c", "t", "i", "o", "n">>
TitleAction == <<"A", "c", "t", "i", "o", "n">>

\* lines 55-56: the name get_name derives from cls.__name__
DeriveName(n) == Strip(Replace(Replace(SubCamel(n), LowerAction, <<>>), TitleAction, <<>>))

\* lines 63-64: the path get_url_path derives from cls.__name__
DeriveUrlPath(n) == Replace(Lower(SubCamel(n)), <<" ">>, <<"-">>)

---------------------------------------------------------------------------
(* Attribute values, classes and attribute lookup *)

Unset == [kind |-> "unset", str |-> <<>>]
None == [kind |-> "none", str |-> <<>>]
S(s) == [kind |-> "str", str |-> s]

\* Python truth of an attribute value: None and "" are false
Truthy(v) == v.kind = "str" /\ v.str # <<>>

NameAttrs == {"name", "url_path", "path_name"}
MsgAttrs == {"post_success_message", "put_success_message", "delete_success_message"}
Attrs == NameAttrs \cup MsgAttrs \cup {"success_url"}

UserClasses == {"P", "C"}
Classes == UserClasses \cup {"BaseAction", "AbstractFormViewQuickAction"}

\* class P(AbstractFormViewQuickAction, ...), class C(P): the method
\* resolution order attribute lookup follows
MRO(k) ==
    CASE k = "C" -> <<"C", "P", "AbstractFormViewQuickAction", "BaseAction">>
      [] k = "P" -> <<"P", "AbstractFormViewQuickAction", "BaseAction">>
      [] k = "AbstractFormViewQuickAction" -> <<"AbstractFormViewQuickAction", "BaseAction">>
      [] k = "BaseAction" -> <<"BaseAction">>

\* lines 18-23: the class body of BaseAction
BaseActionDict ==
    [a \in Attrs |-> IF a \in NameAttrs \cup MsgAttrs THEN None ELSE Unset]

\* line 96: the class body of AbstractFormViewQuickAction
AbstractFormDict ==
    [a \in Attrs |-> IF a = "success_url" THEN None ELSE Unset]

EmptyDict == [a \in Attrs |-> Unset]

\* cls.attr / self.attr: the entry of the first class of the MRO that has one
Lookup(d, k, a) ==
    LET m == MRO(k)
        has == {i \in 1..Len(m) : d[m[i]][a].kind # "unset"}
        i0 == CHOOSE i \in has : \A j \in has : i <= j
    IN  IF has = {} THEN None ELSE d[m[i0]][a]

---------------------------------------------------------------------------
(* The classmethods, as functions from the class dicts to the returned     *)
(* value and the updated class dicts                                       *)

\* get_name without the "if cls.name" test: it derives and stores every time
get_name_overwrite(d, n, k) ==
    LET v == S(DeriveName(n[k]))
    IN  [val |-> v, dict |-> [d EXCEPT ![k]["name"] = v]]

\* lines 52-57
get_name(d, n, k) ==
    IF Truthy(Lookup(d, k, "name"))
    THEN [val |-> Lookup(d, k, "name"), dict |-> d]
    ELSE LET v == S(DeriveName(n[k]))
         IN  [val |-> v, dict |-> [d EXCEPT ![k]["name"] = v]]

\* lines 60-65
get_url_path(d, n, k) ==
    IF Truthy(Lookup(d, k, "url_path"))
    THEN [val |-> Lookup(d, k, "url_path"), dict |-> d]
    ELSE LET v == S(DeriveUrlPath(n[k]))
         IN  [val |-> v, dict |-> [d EXCEPT ![k]["url_path"] = v]]

\* get_path_name deriving the path itself instead of calling get_url_path
get_path_name_rederive(d, n, k) ==
    IF Truthy(Lookup(d, k, "path_name"))
    THEN [val |-> Lookup(d, k, "path_name"), dict |-> d]
    ELSE LET v == S(DeriveUrlPath(n[k]))
         IN  [val |-> v, dict |-> [d EXCEPT ![k]["path_name"] = v]]

\* lines 68-72
get_path_name(d, n, k) ==
    IF Truthy(Lookup(d, k, "path_name"))
    THEN [val |-> Lookup(d, k, "path_name"), dict |-> d]
    ELSE LET r == get_url_path(d, n, k)
         IN  [val |-> r.val, dict |-> [r.dict EXCEPT ![k]["path_name"] = r.val]]

Ops == {"get_name", "get_url_path", "get_path_name"}

\* what a classmethod call leaves in the state: the class dicts, the returned
\* value, and the record of the call
Called(op, k, r) ==
    /\ dict' = r.dict
    /\ ret' = r.val
    /\ pre' = dict
    /\ last' = [op |-> op, cls |-> k, repeated |-> first[k][op].kind # "unset"]
    /\ first' = IF first[k][op].kind = "unset"
                THEN [first EXCEPT ![k][op] = r.val]
                ELSE first
    /\ UNCHANGED <<className, conf, reqVars, wizVars, ctxVars>>

GetName(k) == Called("get_name", k, get_name(dict, className, k))

GetUrlPath(k) == Called("get_url_path", k, get_url_path(dict, className, k))

GetPathName(k) == Called("get_path_name", k, get_path_name(dict, className, k))

---------------------------------------------------------------------------
(* Requests: BaseAction.post / put / delete *)

\* lines 74-75
get_post_success_message(k) == Lookup(dict, k, "post_success_message")

\* get_put_success_message reading the POST message
get_put_success_message_copied(k) == Lookup(dict, k, "post_success_message")

\* lines 77-78
get_put_success_message(k) == Lookup(dict, k, "put_success_message")

\* lines 80-81
get_delete_success_message(k) == Lookup(dict, k, "delete_success_message")

\* "if success_message: messages.success(request, message)": the messages the
\* call adds to the storage
Emitted(msg) == IF Truthy(msg) THEN <<msg.str>> ELSE <<>>

\* the ways super().post / put / delete can end: it returns a response or
\* raises
Outcomes == {"returned", "raised"}

\* what a request leaves in the state: the messages it emitted before the
\* underlying handler ran, then how the handler ended
Handled(method, k, msg, outcome) ==
    /\ requests < MaxRequests
    /\ messages' = messages \o Emitted(msg)
    /\ events' = [e \in 1..Len(Emitted(msg)) |-> "message"] \o <<outcome>>
    /\ requests' = requests + 1
    /\ last' = [op |-> method, cls |-> k, repeated |-> FALSE]
    /\ UNCHANGED <<nameVars, wizVars, ctxVars>>

\* lines 25-29
Post(k) == \E outcome \in Outcomes :
    Handled("post", k, get_post_success_message(k), outcome)

\* lines 31-35
Put(k) == \E outcome \in Outcomes :
    Handled("put", k, get_put_success_message(k), outcome)

\* lines 37-41
Delete(k) == \E outcome \in Outcomes :
    Handled("delete", k, get_delete_success_message(k), outcome)

---------------------------------------------------------------------------
(* The wizard *)

AdminPrefix == <<"a", "d", "m", "i", "n", ":">>

\* "{0}".format(v)
Format(v) == IF v.kind = "str" THEN v.str ELSE <<"N", "o", "n", "e">>

\* lines 98-101
get_success_url(k) ==
    IF Truthy(Lookup(dict, k, "success_url"))
    THEN Lookup(dict, k, "success_url").str
    ELSE AdminPrefix \o Format(Lookup(dict, k, "path_name"))

\* One step submission of a wizard of class k: BaseAction.post (lines 25-29),
\* whose super().post is the wizard's form handling: an invalid form is shown
\* again, a valid one moves to the next step, and a valid last one calls
\* done (lines 122-126)
WizardPost(k) == \E valid \in BOOLEAN :
    LET msg == get_post_success_message(k)
        last_step == valid /\ step = steps
    IN  /\ ~finished
        /\ requests < MaxRequests
        /\ requests' = requests + 1
        /\ messages' = messages \o Emitted(msg) \o (IF last_step THEN Emitted(msg) ELSE <<>>)
        /\ events' = [e \in 1..Len(Emitted(msg)) |-> "message"]
                       \o (IF last_step
                           THEN <<"done">> \o [e \in 1..Len(Emitted(msg)) |-> "message"]
                                \o <<"redirect">>
                           ELSE <<>>)
                       \o <<"returned">>
        /\ step' = IF valid /\ step < steps THEN step + 1 ELSE step
        /\ finished' = last_step
        /\ redirect' = IF last_step THEN S(get_success_url(k)) ELSE redirect
        /\ last' = [op |-> "post", cls |-> k, repeated |-> FALSE]
        /\ UNCHANGED <<nameVars, ctxVars, steps>>

---------------------------------------------------------------------------
(* The template context *)

\* {**a, **b}
Merge(a, b) ==
    [key \in DOMAIN a \cup DOMAIN b |-> IF key \in DOMAIN b THEN b[key] ELSE a[key]]

\* the merge with the last two mappings in the other order
ContextDataViewLast(self, super, admin) ==
    Merge(Merge([key \in {"action"} |-> self], admin), super)

\* lines 45-49
ContextData(self, super, admin) ==
    Merge(Merge([key \in {"action"} |-> self], super), admin)

CtxKeys == {"action", "form", "title"}
CtxValues == {"x", "y"}
Contexts == UNION {[K -> CtxValues] : K \in SUBSET CtxKeys}

\* lines 43-49, for any two mappings the framework and the admin site return
GetContextData == \E sup \in Contexts, adm \in Contexts :
    /\ superCtx' = sup
    /\ adminCtx' = adm
    /\ context' = ContextData(selfObj, sup, adm)
    /\ last' = [op |-> "get_context_data", cls |-> "P", repeated |-> FALSE]
    /\ UNCHANGED <<nameVars, reqVars, wizVars, selfObj>>

---------------------------------------------------------------------------
(* Initial states *)

RECURSIVE Flatten(_)
Flatten(ss) == IF ss = <<>> THEN <<>> ELSE Head(ss) \o Flatten(Tail(ss))

\* the words class names are made of
Words == {<<"T", "r", "a", "n", "s", "a", "c", "t", "i", "o", "n">>,
          <<"R", "e", "p", "o", "r", "t">>,
          <<"T", "o", "p", "9">>,
          <<"A", "c", "t", "i", "o", "n">>,
          <<"A", "C", "T", "I", "O", "N">>,
          <<"a", "c", "t", "i", "o", "n">>}

\* class names of one to MaxWords words
NameSet == {Flatten(ws) : ws \in UNION {[1..n -> Words] : n \in 1..MaxWords}}

\* the class names of the two classes of the hierarchy
HierNames == {<<"R", "e", "p", "o", "r", "t">>,
              <<"A", "c", "t", "i", "o", "n">>,
              <<"T", "o", "p", "9", "R", "e", "p", "o", "r", "t", "A", "c", "t", "i", "o", "n">>}

\* the value a class body gives attribute a when it configures it
Configured(k, a) ==
    (IF k = "P" THEN <<"p">> ELSE <<"c">>) \o
    (CASE a = "name" -> <<" ", "N">>
       [] a = "url_path" -> <<"-", "u">>
       [] a = "path_name" -> <<"-", "p">>
       [] a = "success_url" -> <<"/", "s">>
       [] a = "post_success_message" -> <<" ", "o", "k">>
       [] a = "put_success_message" -> <<" ", "p", "u", "t">>
       [] a = "delete_success_message" -> <<" ", "d", "e", "l">>)

\* what a class body may give attribute a: nothing, its value or, for a
\* message, the empty string
Choices(k, a) ==
    {Unset, S(Configured(k, a))} \cup (IF a \in MsgAttrs THEN {S(<<>>)} ELSE {})

\* the class bodies that configure some of the attributes in A
Bodies(k, A) ==
    {[a \in Attrs |-> IF a \in A THEN c[a] ELSE Unset] :
        c \in {f \in [A -> UNION {Choices(k, a) : a \in A}] :
                 \A a \in A : f[a] \in Choices(k, a)}}

NoCalls == [k \in UserClasses |-> [op \in Ops |-> Unset]]

Start(names, bodyP, bodyC, n) ==
    /\ className = names
    /\ conf = [k \in Classes |->
                 CASE k = "BaseAction" -> BaseActionDict
                   [] k = "AbstractFormViewQuickAction" -> AbstractFormDict
                   [] k = "P" -> bodyP
                   [] k = "C" -> bodyC]
    /\ dict = conf
    /\ pre = conf
    /\ last = [op |-> "none", cls |-> "P", repeated |-> FALSE]
    /\ ret = None
    /\ first = NoCalls
    /\ messages = <<>>
    /\ events = <<>>
    /\ requests = 0
    /\ steps = n
    /\ step = 1
    /\ finished = FALSE
    /\ redirect = None
    /\ selfObj = "self"
    /\ superCtx = <<>>
    /\ adminCtx = <<>>
    /\ context = <<>>

DefaultNames == [k \in UserClasses |-> IF k = "P" THEN <<"R", "e", "p", "o", "r", "t">>
                                        ELSE <<"T", "o", "p", "9">>]

\* one class P, of any name, configuring any of name, url_path, path_name
InitNames == \E n \in NameSet, b \in Bodies("P", NameAttrs) :
    Start([DefaultNames EXCEPT !["P"] = n], b, EmptyDict, 1)

\* a class P and its subclass C, each configuring any of the three
InitInherit == \E np \in HierNames, nc \in HierNames,
                  bp \in Bodies("P", NameAttrs), bc \in Bodies("C", NameAttrs) :
    Start([k \in UserClasses |-> IF k = "P" THEN np ELSE nc], bp, bc, 1)

\* a view class P configuring any of the three success messages
InitRequests == \E b \in Bodies("P", MsgAttrs) :
    Start(DefaultNames, b, EmptyDict, 1)

\* a wizard class P of 1..MaxSteps steps
InitWizard == \E n \in 1..MaxSteps,
                 b \in Bodies("P", {"post_success_message", "success_url", "path_name", "url_path"}) :
    Start(DefaultNames, b, EmptyDict, n)

InitContext == Start(DefaultNames, EmptyDict, EmptyDict, 1)

---------------------------------------------------------------------------
(* Specifications *)

NextNames == GetName("P") \/ GetUrlPath("P") \/ GetPathName("P")
SpecNames == InitNames /\ [][NextNames]_vars

NextInherit == \E k \in UserClasses : GetName(k) \/ GetUrlPath(k) \/ GetPathName(k)
SpecInherit == InitInherit /\ [][NextInherit]_vars

NextRequests == Post("P") \/ Put("P") \/ Delete("P")
SpecRequests == InitRequests /\ [][NextRequests]_vars

NextWizard == WizardPost("P") \/ GetPathName("P")
SpecWizard == InitWizard /\ [][NextWizard]_vars

NextContext == GetContextData
SpecContext == InitContext /\ [][NextContext]_vars

---------------------------------------------------------------------------
(* What the claims are stated with *)

\* position i of n is a transition from a lowercase letter or digit to an
\* uppercase letter
Transition(n, i) == i < Len(n) /\ IsLowerOrDigit(n[i]) /\ IsUpper(n[i + 1])

\* n with sep put after every transition
Separated(n, sep) ==
    Flatten([i \in 1..Len(n) |-> IF Transition(n, i) THEN <<n[i], sep>> ELSE <<n[i]>>])

\* s ends with "action" in any letter case
EndsWithAction(s) ==
    Len(s) >= 6 /\ Lower(SubSeq(s, Len(s) - 5, Len(s))) = LowerAction

\* the name C1 describes: spaces at the transitions, then only a trailing
\* "action" (any case) removed
SuffixStrippedName(n) ==
    LET s == Separated(n, " ")
    IN  IF EndsWithAction(s) THEN Strip(SubSeq(s, 1, Len(s) - 6)) ELSE s

\* the path C2 describes: n lowercased, a hyphen after every transition of n
Hyphenated(n) ==
    Flatten([i \in 1..Len(n) |->
               IF Transition(n, i) THEN <<Lower(n)[i], "-">> ELSE <<Lower(n)[i]>>])

Alphanumeric(n) ==
    \A i \in 1..Len(n) : IsLowerOrDigit(n[i]) \/ IsUpper(n[i])

WithoutHyphens(s) == SelectSeq(s, LAMBDA c : c # "-")

Count(s, e) == Cardinality({i \in 1..Len(s) : s[i] = e})

AttrOf(op) ==
    CASE op = "get_name" -> "name"
      [] op = "get_url_path" -> "url_path"
      [] op = "get_path_name" -> "path_name"

MessageOf(method) ==
    CASE method = "post" -> "post_success_message"
      [] method = "put" -> "put_success_message"
      [] method = "delete" -> "delete_success_message"

Methods == {"post", "put", "delete"}

\* the class body of k and of every class it inherits from configures none
\* of name, url_path, path_name
NothingConfigured(k) ==
    \A a \in NameAttrs : ~Truthy(Lookup(conf, k, a))

---------------------------------------------------------------------------
(* C1 *)

\* C1: for a class with no configured name, get_name returns the class name
\* with a space at each lower/digit-to-upper transition and with only a
\* trailing "action" suffix (in any letter case) removed.
C1_NameStripsOnlyActionSuffix ==
    (last.op = "get_name" /\ ~Truthy(Lookup(conf, last.cls, "name")))
        => ret = S(SuffixStrippedName(className[last.cls]))

---------------------------------------------------------------------------
(* C2 *)

---------------------------------------------------------------------------
(* C3 *)

\* C3: a success message of a POST, PUT or DELETE request is emitted only
\* after the underlying handler has run and returned.
C3_MessageAfterHandler ==
    last.op \in Methods =>
        \A i \in 1..Len(events) :
            events[i] = "message" => \E j \in 1..(i - 1) : events[j] = "returned"

---------------------------------------------------------------------------
(* C4 *)

---------------------------------------------------------------------------
(* C5 *)

\* C5 as stated: the result holds every key of the three mappings, and for a
\* key of both the admin-site context and the per-view context it holds the
\* per-view value.
C5_PerViewOverridesAdmin ==
    last.op = "get_context_data" =>
        /\ DOMAIN context = {"action"} \cup DOMAIN superCtx \cup DOMAIN adminCtx
        /\ \A key \in DOMAIN superCtx \cap DOMAIN adminCtx : context[key] = superCtx[key]

\* C5 amended: the merge order is self-as-action, per-view context, admin-site
\* context: the result holds every key of the three mappings, the admin-site
\* value for every key of the admin-site context, the per-view value for a
\* key of the per-view context alone, and self under "action" when neither
\* of the two has that key.
C5_AdminOverridesPerView ==
    last.op = "get_context_data" =>
        /\ DOMAIN context = {"action"} \cup DOMAIN superCtx \cup DOMAIN adminCtx
        /\ \A key \in DOMAIN adminCtx : context[key] = adminCtx[key]
        /\ \A key \in DOMAIN superCtx \ DOMAIN adminCtx : context[key] = superCtx[key]
        /\ "action" \notin DOMAIN superCtx \cup DOMAIN adminCtx => context["action"] = selfObj

\* a merge where the two contexts disagree on a shared key, the per-view
\* context has a key of its own, and neither replaces "action"
C5_Witness ==
    /\ last.op = "get_context_data"
    /\ \E key \in DOMAIN superCtx \cap DOMAIN adminCtx : superCtx[key] # adminCtx[key]
    /\ DOMAIN superCtx \ DOMAIN adminCtx # {}
    /\ context["action"] = selfObj

---------------------------------------------------------------------------
(* C6 *)

\* C6: in a wizard with a configured post success message, a run to
\* completion emits exactly one message, and nothing is emitted before the
\* final step completes.
C6_OneMessagePerWizardRun ==
    Truthy(Lookup(conf, "P", "post_success_message")) =>
        Len(messages) = IF finished THEN 1 ELSE 0

---------------------------------------------------------------------------
(* C7 *)

\* C7: done redirects to success_url when configured, and otherwise to
\* "admin:<path name>", the path name being what get_path_name returns.
C7_RedirectsToPathName ==
    finished =>
        redirect = IF Truthy(Lookup(conf, "P", "success_url"))
                   THEN Lookup(conf, "P", "success_url")
                   ELSE S(AdminPrefix \o get_path_name(dict, className, "P").val.str)

---------------------------------------------------------------------------
(* C8 *)

\* C8: with nothing configured on a class C or on the class P it inherits
\* from, every call on C returns the value derived from C's own class name,
\* whatever was called on P before.
C8_DerivedFromOwnClassName ==
    (last.op \in Ops /\ last.cls = "C" /\ NothingConfigured("C")) =>
        ret = IF last.op = "get_name"
              THEN S(DeriveName(className["C"]))
              ELSE S(DeriveUrlPath(className["C"]))

---------------------------------------------------------------------------
(* C9 *)

\* C9: on a single class, a repeated call of get_name, get_url_path or
\* get_path_name returns what the first call of that operation returned (also
\* when that is the empty string), and with no configured path_name
\* get_path_name returns what get_url_path returns.
C9_Idempotent ==
    /\ (last.op \in Ops /\ last.repeated) => ret = first[last.cls][last.op]
    /\ (last.op \in Ops /\ ~Truthy(Lookup(conf, last.cls, "path_name"))) =>
          /\ get_path_name(dict, className, last.cls).val
               = get_url_path(dict, className, last.cls).val
          /\ (first[last.cls]["get_path_name"] # Unset
                /\ first[last.cls]["get_url_path"] # Unset)
               => first[last.cls]["get_path_name"] = first[last.cls]["get_url_path"]

\* get_name was called again on a class named "Action", whose derived name is
\* empty, after get_path_name and get_url_path had both been called
C9_Witness ==
    /\ last.op = "get_name"
    /\ last.repeated
    /\ ret = S(<<>>)
    /\ first[last.cls]["get_path_name"] # Unset
    /\ first[last.cls]["get_url_path"] # Unset
    /\ ~Truthy(Lookup(conf, last.cls, "path_name"))

---------------------------------------------------------------------------
(* C10 *)

\* C10: a configured non-empty name, url_path or path_name is returned as is
\* and never overwritten; get_name changes only name, get_url_path only
\* url_path, get_path_name only path_name and url_path, of the class it is
\* called on.
C10_ConfiguredKeptAndFrame ==
    /\ \A k \in UserClasses, a \in NameAttrs :
          Truthy(conf[k][a]) => dict[k][a] = conf[k][a]
    /\ (last.op \in Ops /\ Truthy(conf[last.cls][AttrOf(last.op)])) =>
          ret = conf[last.cls][AttrOf(last.op)]
    /\ last.op \in Ops =>
          \A k \in Classes, a \in Attrs :
              dict[k][a] # pre[k][a] =>
                  /\ k = last.cls
                  /\ \/ a = AttrOf(last.op)
                     \/ last.op = "get_path_name" /\ a = "url_path"

\* get_path_name stored path_name and url_path on a subclass that configures
\* its name, whose parent has cached a name
C10_Witness ==
    /\ last.op = "get_path_name"
    /\ last.cls = "C"
    /\ dict["C"]["path_name"] # pre["C"]["path_name"]
    /\ dict["C"]["url_path"] # pre["C"]["url_path"]
    /\ Truthy(conf["C"]["name"])
    /\ ~Truthy(conf["P"]["name"]) /\ Truthy(dict["P"]["name"])

====
